---------------------------- MODULE Spec2Model ----------------------------
(***************************************************************************)
(* Order emergency-classification pipeline of datastep-backend             *)
(* (src/src/model/order_classification/order_classification_model.py).     *)
(*                                                                         *)
(* Strings are sequences of one-character strings.  An Optional value is   *)
(* None (the empty tuple) or Some(v) (the one-element tuple <<v>>).        *)
(***************************************************************************)
EXTENDS Integers, Sequences, FiniteSets, TLC

VARIABLES
    store,            \* history store: sequence of saved rows
    config,           \* default classification config of each client
    domyland,         \* the order-management system's orders
    pc,               \* position of each run of get_emergency_class
    body,             \* the request of each run
    history_record,   \* the in-flight OrderClassificationRecord of each run
    frame,            \* locals of get_emergency_class of each run
    calls,            \* order-management calls made by each run, in order
    llm_calls,        \* classifier calls made by each run, in order
    slept,            \* seconds each run spent in time.sleep
    saves,            \* calls of save_order_classification_record by each run
    result,           \* the record each run returned to its caller
    raised,           \* the exception each run raised inside its try block
    nz_pc,            \* normalizer harness: position
    nz_query,         \* normalizer harness: the input string
    nz_once,          \* normalizer harness: normalize(input)
    nz_twice,         \* normalizer harness: normalize(normalize(input))
    rs_pc,            \* resolver harness: position
    rs_address,       \* resolver harness: the order address
    rs_result         \* resolver harness: the resolver's return value

vars == <<store, config, domyland, pc, body, history_record, frame, calls, llm_calls,
          slept, saves, result, raised, nz_pc, nz_query, nz_once, nz_twice,
          rs_pc, rs_address, rs_result>>

pipeline_vars == <<store, config, domyland, pc, body, history_record, frame, calls,
                   llm_calls, slept, saves, result, raised>>

normalizer_vars == <<nz_pc, nz_query, nz_once, nz_twice>>

resolver_vars == <<rs_pc, rs_address, rs_result>>

harness_vars == <<normalizer_vars, resolver_vars>>

----------------------------------------------------------------------------
(* Optional values and strings                                             *)

None == <<>>

Some(v) == <<v>>

\* Python's str whitespace, as far as the modelled alphabet goes.
Whitespace == {" ", "\n", "\t"}

LowerChar(c) ==
    CASE c = "A" -> "a"
      [] c = "V" -> "v"
      [] c = "L" -> "l"
      [] c = "M" -> "m"
      [] c = "E" -> "e"
      [] c = "N" -> "n"
      [] OTHER -> c

\* str.lower()
Lower(s) == [i \in 1..Len(s) |-> LowerChar(s[i])]

RECURSIVE LStrip(_)
LStrip(s) ==
    IF s # <<>> /\ Head(s) \in Whitespace THEN LStrip(Tail(s)) ELSE s

RECURSIVE RStrip(_)
RStrip(s) ==
    IF s # <<>> /\ s[Len(s)] \in Whitespace
    THEN RStrip(SubSeq(s, 1, Len(s) - 1))
    ELSE s

\* str.strip()
Strip(s) == RStrip(LStrip(s))

\* sub in s
Contains(sub, s) ==
    \E i \in 0..(Len(s) - Len(sub)) : SubSeq(s, i + 1, i + Len(sub)) = sub

StartsWith(s, prefix) ==
    Len(s) >= Len(prefix) /\ SubSeq(s, 1, Len(prefix)) = prefix

\* str.replace(old, new): leftmost, non-overlapping occurrences.
RECURSIVE Replace(_, _, _)
Replace(s, old, new) ==
    IF Len(s) < Len(old) THEN s
    ELSE IF StartsWith(s, old)
         THEN new \o Replace(SubSeq(s, Len(old) + 1, Len(s)), old, new)
         ELSE <<Head(s)>> \o Replace(Tail(s), old, new)

RECURSIVE DropWhile(_, _)
DropWhile(s, set) ==
    IF s # <<>> /\ Head(s) \in set THEN DropWhile(Tail(s), set) ELSE s

RECURSIVE DropUntil(_, _)
DropUntil(s, set) ==
    IF s # <<>> /\ Head(s) \notin set THEN DropUntil(Tail(s), set) ELSE s

Digit(d) ==
    CASE d = 0 -> "0" [] d = 1 -> "1" [] d = 2 -> "2" [] d = 3 -> "3"
      [] d = 4 -> "4" [] d = 5 -> "5" [] d = 6 -> "6" [] d = 7 -> "7"
      [] d = 8 -> "8" [] d = 9 -> "9"

\* str(n) of a natural number
RECURSIVE IntStr(_)
IntStr(n) ==
    IF n < 10 THEN <<Digit(n)>> ELSE IntStr(n \div 10) \o <<Digit(n % 10)>>

----------------------------------------------------------------------------
(* Text normalizer                                                         *)

\* The literal "Прикрепите фото:" : a word, one space, a word.  Each word is
\* written as one character.
PHOTO_PLACEHOLDER == <<"P", " ", "F">>

HTTP == <<"h", "t", "t", "p">>

\* Mutant: re.sub(r"http\S+", " ", s, count=1), only the first URL is removed.
RECURSIVE SubUrls_first(_)
SubUrls_first(s) ==
    IF s = <<>> THEN <<>>
    ELSE IF StartsWith(s, HTTP) /\ Len(s) > Len(HTTP)
            /\ s[Len(HTTP) + 1] \notin Whitespace
         THEN <<" ">> \o DropUntil(SubSeq(s, Len(HTTP) + 1, Len(s)), Whitespace)
         ELSE <<Head(s)>> \o SubUrls_first(Tail(s))

\* re.sub(r"http\S+", " ", s)
RECURSIVE SubUrls(_)
SubUrls(s) ==
    IF s = <<>> THEN <<>>
    ELSE IF StartsWith(s, HTTP) /\ Len(s) > Len(HTTP)
            /\ s[Len(HTTP) + 1] \notin Whitespace
         THEN <<" ">> \o SubUrls(DropUntil(SubSeq(s, Len(HTTP) + 1, Len(s)), Whitespace))
         ELSE <<Head(s)>> \o SubUrls(Tail(s))

\* re.sub(r"\s+", " ", s)
RECURSIVE SubSpaces(_)
SubSpaces(s) ==
    IF s = <<>> THEN <<>>
    ELSE IF Head(s) \in Whitespace
         THEN <<" ">> \o SubSpaces(DropWhile(s, Whitespace))
         ELSE <<Head(s)>> \o SubSpaces(Tail(s))

normalize_resident_request_string(query) ==
    LET removed_line_breaks_query == Replace(query, <<"\n">>, <<" ">>)
        removed_photos_query ==
            Replace(removed_line_breaks_query, PHOTO_PLACEHOLDER, <<" ">>)
        removed_urls_query == SubUrls(removed_photos_query)
        fixed_spaces_query == SubSpaces(removed_urls_query)
    IN  fixed_spaces_query

----------------------------------------------------------------------------
(* Bounds of the model                                                     *)

\* Most consecutive rate-limit signals the classifier raises in one run.
MaxRateLimits == 2

\* Most tokens of an input string of the normalizer harness.
MaxTokens == 5

\* Most characters of an order address of the resolver harness.
MaxAddressLen == 4

----------------------------------------------------------------------------
(* Program constants and configuration data                                *)

\* OrderStatusID.PENDING, OrderStatusID.IN_PROGRESS, AlertTypeID.NEW_ORDER
PENDING == 1

IN_PROGRESS == 2

NEW_ORDER == 1

RESPONSIBLE_DEPT_ID == 38

AI_USER_ID == 15698

WAIT_TIME_IN_SEC == 60

\* sys.getrecursionlimit() of CPython, which the program never changes: the
\* most frames of the interpreter's stack, and so more than the most nested
\* calls of _get_order_emergency.
PY_RECURSION_LIMIT == 1000

ORDER_PROCESSED_BY_AI_MESSAGE == <<"ORDER_PROCESSED_BY_AI_MESSAGE">>

\* The literal "аварийная", written with two characters.
EMERGENCY_LABEL == <<"a", "v">>

\* UDS_LIST entries: user_id is a decimal string, address_list a list of
\* address substrings.
RESPONSIBLE_UDS_LIST ==
    << [user_id |-> <<"7">>, address_list |-> << <<"l", "e">> >>],
       [user_id |-> <<"9">>, address_list |-> << <<"l", "e", "s">>, <<"m">> >>] >>

Runs == {"r1", "r2"}

Clients == {"vysota"}

OrderIds == {42, 43}

StatusIds == {PENDING, IN_PROGRESS}

AlertTypeIds == {NEW_ORDER, 2}

\* OrderClassificationRequest
Requests ==
    [alertId : {900}, alertTypeId : AlertTypeIds, timestamp : {1700},
     data : [orderId : OrderIds, orderStatusId : StatusIds]]

\* OrderClassificationConfig rows get_default_config can return.
Configs ==
    [user_id : {1}, is_use_emergency_classification : BOOLEAN,
     is_use_order_updating : BOOLEAN, emergency_prompt : {"prompt"}]

FormField(type, title, value) == [type |-> type, title |-> title, value |-> value]

SummaryField(title, value) == [title |-> title, value |-> value]

\* orderForm lists the order-management system may answer with.
OrderForms ==
    { <<>>,
      <<FormField("TEXT", "COMMENT", <<"t">>), FormField("TEXT", "COMMENT", <<" ">>)>>,
      <<FormField("SELECT", "COMMENT", <<"s">>), FormField("TEXT", "COMMENT", <<" ">>),
        FormField("TEXT", "COMMENT", <<"t", "\n", "t">>),
        FormField("TEXT", "PHONE", <<"n">>)>> }

\* summary lists the order-management system may answer with.
Summaries ==
    { <<>>,
      <<SummaryField("OBJECT", <<"L", "e", " ", "5">>)>>,
      <<SummaryField("OBJECT", <<"x">>)>>,
      <<SummaryField("OBJECT", <<"L", "e">>), SummaryField("OBJECT", <<" ">>)>>,
      <<SummaryField("OBJECT", <<"x">>), SummaryField("STATUS", <<"L", "e">>),
        SummaryField("OBJECT", <<"M">>)>> }

\* OrderDetails
DetailsSet == [service : [orderForm : OrderForms], order : [summary : Summaries]]

\* Labels the classifier may return: the affirmative label, the same in
\* upper case within whitespace, and an answer that only starts with it.
Labels == { <<"a", "v">>, <<" ", "A", "V", "\n">>, <<"A", "v", " ", "n">> }

\* Outcomes of an HTTP call after authentication: a 2xx answer, a non-2xx
\* answer with a JSON body, an answer whose body is not JSON (of any status,
\* such as a gateway's 502 with an HTML page: response.json() is called
\* before response.ok is looked at).
HttpOutcomes == {"ok", "error", "not_json"}

UpstreamBody == <<"upstream body">>

----------------------------------------------------------------------------
(* Collaborators outside the pipeline module                               *)

\* get_saved_record_by_order_id: the first row of the (order id, client)
\* pair, or None.
RECURSIVE get_saved_record_by_order_id(_, _, _)
get_saved_record_by_order_id(rows, order_id, client) ==
    IF rows = <<>> THEN None
    ELSE IF Head(rows).record.order_id = order_id /\ Head(rows).client = client
         THEN Some(Head(rows))
         ELSE get_saved_record_by_order_id(Tail(rows), order_id, client)

\* save_order_classification_record: the record has no id of its own yet, so
\* it is stored as a new row under a fresh id.
save_order_classification_record(rows, record, client) ==
    Append(rows, [id |-> Len(rows) + 1, client |-> client, record |-> record])

\* get_default_config
get_default_config(client) == config[client]

----------------------------------------------------------------------------
(* Pure parts of the pipeline                                              *)

\* Mutant: the lookup is made for the client alone, whatever the order.
saved_record_of_client(rows, order_id, client) ==
    IF \E i \in DOMAIN rows : rows[i].client = client
    THEN Some(rows[CHOOSE i \in DOMAIN rows : rows[i].client = client])
    ELSE None

\* saved_record = get_saved_record_by_order_id(order_id=order_id, client=client)
saved_record(rows, order_id, client) ==
    get_saved_record_by_order_id(rows, order_id, client)

\* int(s) of a decimal string
RECURSIVE ParseInt(_)
ParseInt(s) ==
    LET d == CHOOSE n \in 0..9 : Digit(n) = s[Len(s)]
    IN  IF Len(s) = 1 THEN d ELSE 10 * ParseInt(SubSeq(s, 1, Len(s) - 1)) + d

RECURSIVE JoinInts(_)
JoinInts(ids) ==
    IF ids = <<>> THEN <<>>
    ELSE IF Len(ids) = 1 THEN IntStr(Head(ids))
    ELSE IntStr(Head(ids)) \o <<",", " ">> \o JoinInts(Tail(ids))

\* str(x) of an Optional list of integers: "None" or "[a, b]"
PyStr(opt_ids) ==
    IF opt_ids = None THEN <<"N", "o", "n", "e">>
    ELSE <<"[">> \o JoinInts(opt_ids[1]) \o <<"]">>

\* Mutant: the addresses are compared as written, without lower().
uds_matches_as_written(uds_data, order_address) ==
    \E j \in 1..Len(uds_data.address_list) :
        Contains(uds_data.address_list[j], order_address)

\* Whether a unit has an address contained in the order address.
uds_matches(uds_data, order_address) ==
    \E j \in 1..Len(uds_data.address_list) :
        Contains(Lower(uds_data.address_list[j]), Lower(order_address))

RECURSIVE search_responsible_uds(_, _)
search_responsible_uds(uds_list, order_address) ==
    IF uds_list = <<>> THEN None
    ELSE IF uds_matches(Head(uds_list), order_address)
         THEN Some(<<ParseInt(Head(uds_list).user_id)>>)
         ELSE search_responsible_uds(Tail(uds_list), order_address)

get_responsible_users_ids_by_order_address(order_address) ==
    search_responsible_uds(RESPONSIBLE_UDS_LIST, order_address)

\* Mutant: the loop stops at the first match (a break after the assignment).
RECURSIVE scan_order_query_first(_, _)
scan_order_query_first(order_form, order_query) ==
    IF order_form = <<>> THEN order_query
    ELSE scan_order_query_first(
            Tail(order_form),
            IF Head(order_form).type = "TEXT" /\ Head(order_form).title = "COMMENT"
               /\ order_query = None
            THEN Some(Head(order_form).value)
            ELSE order_query)

\* The loop over order_details.service.orderForm: every match overwrites.
RECURSIVE scan_order_query(_, _)
scan_order_query(order_form, order_query) ==
    IF order_form = <<>> THEN order_query
    ELSE scan_order_query(
            Tail(order_form),
            IF Head(order_form).type = "TEXT" /\ Head(order_form).title = "COMMENT"
            THEN Some(Head(order_form).value)
            ELSE order_query)

\* The loop over order_details.order.summary: every match overwrites.
RECURSIVE scan_order_address(_, _)
scan_order_address(summary, order_address) ==
    IF summary = <<>> THEN order_address
    ELSE scan_order_address(
            Tail(summary),
            IF Head(summary).title = "OBJECT"
            THEN Some(Head(summary).value)
            ELSE order_address)

\* Mutant: only the missing value is detected, strip() is not applied.
is_missing_only(opt_str) == opt_str = None

\* "not exists or empty" of an Optional string
is_missing_or_blank(opt_str) ==
    LET is_exists == opt_str # None
        is_empty == is_exists /\ Strip(opt_str[1]) = <<>>
    IN  ~is_exists \/ is_empty

\* Mutant: either switch enables the classification.
is_use_emergency_classification_either(cfg) ==
    cfg.is_use_emergency_classification \/ cfg.is_use_order_updating

is_use_emergency_classification(cfg) == cfg.is_use_emergency_classification

\* Mutant: the order-updating switch is not read.
is_use_order_updating_unread(cfg) == is_use_emergency_classification(cfg)

is_use_order_updating(cfg) ==
    cfg.is_use_order_updating /\ is_use_emergency_classification(cfg)

disabled_field_msg(cfg) ==
    <<"skipped by emergency classification config of user with ID ">>
        \o IntStr(cfg.user_id)

\* Mutant: the label is compared without strip().
is_emergency_label_untrimmed(order_emergency) ==
    Lower(order_emergency) = EMERGENCY_LABEL

\* Mutant: every label counts as the affirmative one.
is_emergency_label_any(order_emergency) == TRUE

\* order_emergency.lower().strip() == "аварийная"
is_emergency_label(order_emergency) ==
    Strip(Lower(order_emergency)) = EMERGENCY_LABEL

\* OrderClassificationRecord(...) at the start of get_emergency_class
new_history_record(b) ==
    [alert_id |-> b.alertId, alert_type_id |-> b.alertTypeId,
     alert_timestamp |-> b.timestamp, order_id |-> b.data.orderId,
     order_status_id |-> b.data.orderStatusId,
     order_details |-> None, order_query |-> None, order_address |-> None,
     order_normalized_query |-> None, order_emergency |-> None,
     is_emergency |-> None, uds_id |-> None,
     order_update_request |-> None, order_update_response |-> None,
     is_error |-> None, comment |-> None]

\* raise HTTPException(detail=...) and any other exception e with str(e)
HTTPException(detail) == [kind |-> "HTTPException", text |-> detail]

Exception(text) == [kind |-> "Exception", text |-> text]

\* Mutant: the except clause names HTTPException alone.
is_caught_http_only(error) == error.kind = "HTTPException"

\* except (HTTPException, Exception)
is_caught(error) == error.kind \in {"HTTPException", "Exception"}

\* Mutant: only an HTTPException's detail is copied to the comment.
except_handler_detail_only(record, error) ==
    [record EXCEPT !.is_error = Some(TRUE),
                   !.comment = IF error.kind = "HTTPException"
                               THEN Some(error.text) ELSE None]

\* The except block: error.detail or str(error) goes to the record.
except_handler(record, error) ==
    [record EXCEPT !.is_error = Some(TRUE), !.comment = Some(error.text)]

\* HTTPException details and other failures' texts
ConflictDetail(order_id, saved) ==
    <<"Order with ID ">> \o IntStr(order_id)
        \o <<" was already classified, history record ID ">> \o IntStr(saved.id)

StatusDetail(order_id, order_status_id) ==
    <<"Order with ID ">> \o IntStr(order_id) \o <<" has status ID ">>
        \o IntStr(order_status_id) \o <<", but status ID ">> \o IntStr(PENDING)
        \o <<" required">>

ConfigDetail(client) ==
    <<"Default order classification config (for user with ID DEFAULT_CONFIG_USER_ID and client ",
      client, ") not found">>

AlertTypeDetail(order_id, alert_type_id) ==
    <<"Order with ID ">> \o IntStr(order_id) \o <<" has alert type ID ">>
        \o IntStr(alert_type_id) \o <<", but status ID ">> \o IntStr(NEW_ORDER)
        \o <<" required">>

NoCommentDetail(order_id) ==
    <<"Order with ID ">> \o IntStr(order_id)
        \o <<" has no comment, cannot classify emergency">>

NoAddressDetail(order_id) ==
    <<"Order with ID ">> \o IntStr(order_id)
        \o <<" has no address, cannot find responsible UDS">>

NoUdsDetail(order_id, order_address) ==
    <<"Cannot find responsible UDS for order with ID ">> \o IntStr(order_id)
        \o <<" and address '">> \o order_address \o <<"'">>

AuthDetail == <<"Domyland Auth: ">> \o UpstreamBody

UpstreamDetail(operation) == <<operation, ": ">> \o UpstreamBody

JsonErrorText == <<"JSONDecodeError">>

LookupErrorText == <<"history store error">>

ClassifierErrorText == <<"classifier error">>

RateLimitErrorText == <<"RateLimitError">>

RecursionErrorText == <<"maximum recursion depth exceeded">>

----------------------------------------------------------------------------
(* Order-management client: every operation authenticates, then calls      *)

\* One call and how it was answered: "ok", "error" or "not_json".
Call(op, resp) == [op |-> op, resp |-> resp]

\* Mutant: the token of the order lookup is reused by the later operations.
operation_calls_token_reused(operation, auth_ok, resp) ==
    IF operation # "order_info" THEN <<Call(operation, resp)>>
    ELSE IF auth_ok
    THEN <<Call("auth", "ok"), Call(operation, resp)>>
    ELSE <<Call("auth", "error")>>

\* The calls one operation sends: /auth, then its own call if /auth was 2xx.
operation_calls(operation, auth_ok, resp) ==
    IF auth_ok
    THEN <<Call("auth", "ok"), Call(operation, resp)>>
    ELSE <<Call("auth", "error")>>

\* Mutant: the answers are not looked at, no operation raises.
operation_failure_unchecked(label, auth_ok, resp) == None

\* The exception one operation raises, or None.
operation_failure(label, auth_ok, resp) ==
    IF ~auth_ok THEN Some(HTTPException(AuthDetail))
    ELSE IF resp = "not_json" THEN Some(Exception(JsonErrorText))
    ELSE IF resp = "error" THEN Some(HTTPException(UpstreamDetail(label)))
    ELSE None

\* Whether the order-management system carried out a PUT or POST: it did
\* for a 2xx answer, it did not for a failed authentication (the request is
\* not sent) or a non-2xx answer, and an answer without a JSON body may be
\* of either kind.
request_accepted(auth_ok, resp) ==
    IF ~auth_ok \/ resp = "error" THEN {FALSE}
    ELSE IF resp = "ok" THEN {TRUE}
    ELSE BOOLEAN

\* req_body of _update_order_status_details
status_update_request(responsible_users_ids) ==
    [responsibleDeptId |-> RESPONSIBLE_DEPT_ID, orderStatusId |-> IN_PROGRESS,
     responsibleUserIds |-> responsible_users_ids, inspectorIds |-> <<AI_USER_ID>>]

\* The order-management system's answer to an accepted status update.
StatusUpdateResponse == [updated |-> TRUE]

\* The order after an accepted PUT /orders/{id}/status
apply_status_update(order, req_body) ==
    [order EXCEPT !.orderStatusId = req_body.orderStatusId,
                  !.responsibleDeptId = Some(req_body.responsibleDeptId),
                  !.responsibleUserIds = Some(req_body.responsibleUserIds),
                  !.inspectorIds = Some(req_body.inspectorIds)]

\* The order after an accepted POST /order-comments
apply_chat_message(order, message) ==
    [order EXCEPT !.comments = Append(@, message)]

----------------------------------------------------------------------------
(* Stages of get_emergency_class, each from the record it finds to the     *)
(* record it leaves and the position it continues at                       *)

Continue(record, next) == [record |-> record, pc |-> next, error |-> None]

\* An exception leaves the try block with the record as it is.
Raise(record, error) == [record |-> record, pc |-> "except", error |-> Some(error)]

\* Mutant: any order status passes the status gate.
is_status_pending_any(order_status_id) == TRUE

\* order_status_id != OrderStatusID.PENDING, negated
is_status_pending(order_status_id) == order_status_id = PENDING

\* Mutant: the alert-type gate is missing.
run_gates_no_alert_gate(record, b, client, lookup_ok, saved, cfg) ==
    LET order_id == b.data.orderId
        order_status_id == b.data.orderStatusId
    IN  IF ~lookup_ok THEN Raise(record, Exception(LookupErrorText))
        ELSE IF saved # None
             THEN Raise(record, HTTPException(ConflictDetail(order_id, saved[1])))
        ELSE IF ~is_status_pending(order_status_id)
             THEN Raise(record, HTTPException(StatusDetail(order_id, order_status_id)))
        ELSE IF cfg = None THEN Raise(record, HTTPException(ConfigDetail(client)))
        ELSE Continue(record, "fetch")

\* Mutant: the status gate stands before the idempotency gate.
run_gates_status_first(record, b, client, lookup_ok, saved, cfg) ==
    LET order_id == b.data.orderId
        order_status_id == b.data.orderStatusId
    IN  IF ~is_status_pending(order_status_id)
        THEN Raise(record, HTTPException(StatusDetail(order_id, order_status_id)))
        ELSE IF ~lookup_ok THEN Raise(record, Exception(LookupErrorText))
        ELSE IF saved # None
             THEN Raise(record, HTTPException(ConflictDetail(order_id, saved[1])))
        ELSE IF cfg = None THEN Raise(record, HTTPException(ConfigDetail(client)))
        ELSE IF is_use_emergency_classification(cfg[1]) /\ b.alertTypeId # NEW_ORDER
             THEN Raise(record, HTTPException(AlertTypeDetail(order_id, b.alertTypeId)))
        ELSE Continue(record, "fetch")

\* Idempotency, status, config and alert-type gates.
run_gates(record, b, client, lookup_ok, saved, cfg) ==
    LET order_id == b.data.orderId
        order_status_id == b.data.orderStatusId
    IN  IF ~lookup_ok THEN Raise(record, Exception(LookupErrorText))
        ELSE IF saved # None
             THEN Raise(record, HTTPException(ConflictDetail(order_id, saved[1])))
        ELSE IF ~is_status_pending(order_status_id)
             THEN Raise(record, HTTPException(StatusDetail(order_id, order_status_id)))
        ELSE IF cfg = None THEN Raise(record, HTTPException(ConfigDetail(client)))
        ELSE IF is_use_emergency_classification(cfg[1]) /\ b.alertTypeId # NEW_ORDER
             THEN Raise(record, HTTPException(AlertTypeDetail(order_id, b.alertTypeId)))
        ELSE Continue(record, "fetch")

\* Mutant: the comment and the address are checked whatever the config says.
after_order_details_always_checked(record, cfg, order_details) ==
    LET order_id == record.order_id
        use == is_use_emergency_classification(cfg)
        order_query == scan_order_query(order_details.service.orderForm, None)
        order_address == scan_order_address(order_details.order.summary, None)
        rec1 == [record EXCEPT !.order_details = Some(order_details),
                               !.order_query = order_query]
        rec2 == [rec1 EXCEPT !.order_address = order_address]
    IN  IF is_missing_or_blank(order_query)
        THEN Raise(rec1, HTTPException(NoCommentDetail(order_id)))
        ELSE IF is_missing_or_blank(order_address)
        THEN Raise(rec2, HTTPException(NoAddressDetail(order_id)))
        ELSE IF use
        THEN Continue(
                [rec2 EXCEPT !.order_normalized_query =
                    Some(normalize_resident_request_string(order_query[1]))],
                "classify")
        ELSE Continue(
                [rec2 EXCEPT !.order_emergency = Some(disabled_field_msg(cfg)),
                             !.is_emergency = None],
                "save")

\* From the fetched order details to the classifier call (classification
\* enabled) or to the end of the try block (classification disabled).
after_order_details(record, cfg, order_details) ==
    LET order_id == record.order_id
        use == is_use_emergency_classification(cfg)
        order_query == scan_order_query(order_details.service.orderForm, None)
        order_address == scan_order_address(order_details.order.summary, None)
        rec1 == [record EXCEPT !.order_details = Some(order_details),
                               !.order_query = order_query]
        rec2 == [rec1 EXCEPT !.order_address = order_address]
    IN  IF use /\ is_missing_or_blank(order_query)
        THEN Raise(rec1, HTTPException(NoCommentDetail(order_id)))
        ELSE IF use /\ is_missing_or_blank(order_address)
        THEN Raise(rec2, HTTPException(NoAddressDetail(order_id)))
        ELSE IF use
        THEN Continue(
                [rec2 EXCEPT !.order_normalized_query =
                    Some(normalize_resident_request_string(order_query[1]))],
                "classify")
        ELSE Continue(
                [rec2 EXCEPT !.order_emergency = Some(disabled_field_msg(cfg)),
                             !.is_emergency = None],
                "save")

\* Mutant: a missing unit is not an error, the dispatch is skipped.
after_classification_no_stop(record, cfg, order_emergency) ==
    LET is_emergency == is_emergency_label(order_emergency)
        rec1 == [record EXCEPT !.order_emergency = Some(order_emergency),
                               !.is_emergency = Some(is_emergency)]
        responsible_users_ids ==
            get_responsible_users_ids_by_order_address(record.order_address[1])
        rec2 == [rec1 EXCEPT !.uds_id = Some(PyStr(responsible_users_ids))]
        msg == [result |-> disabled_field_msg(cfg)]
    IN  IF ~is_emergency THEN Continue(rec1, "save")
        ELSE IF responsible_users_ids # None /\ is_use_order_updating(cfg)
        THEN Continue(rec2, "update")
        ELSE Continue(
                [rec2 EXCEPT !.order_update_request = Some(msg),
                             !.order_update_response = Some(msg)],
                "save")

\* From the classifier's answer to the status update (order updating enabled)
\* or to the end of the try block.
after_classification(record, cfg, order_emergency) ==
    LET is_emergency == is_emergency_label(order_emergency)
        rec1 == [record EXCEPT !.order_emergency = Some(order_emergency),
                               !.is_emergency = Some(is_emergency)]
        order_address == record.order_address[1]
        responsible_users_ids ==
            get_responsible_users_ids_by_order_address(order_address)
        rec2 == [rec1 EXCEPT !.uds_id = Some(PyStr(responsible_users_ids))]
        msg == [result |-> disabled_field_msg(cfg)]
    IN  IF ~is_emergency THEN Continue(rec1, "save")
        ELSE IF responsible_users_ids = None
        THEN Raise(rec2, HTTPException(NoUdsDetail(record.order_id, order_address)))
        ELSE IF is_use_order_updating(cfg) THEN Continue(rec2, "update")
        ELSE Continue(
                [rec2 EXCEPT !.order_update_request = Some(msg),
                             !.order_update_response = Some(msg)],
                "save")

\* Mutant: after the sleep the rate-limit error is raised again.
on_rate_limit_reraise(record) == Raise(record, Exception(RateLimitErrorText))

\* except RateLimitError in _get_order_emergency: after the sleep the same
\* call is made again.
on_rate_limit(record) == Continue(record, "classify")

\* Mutant: any exception of the chain is retried, without waiting.
on_classifier_error_retry(record) == Continue(record, "classify")

\* Any other exception of the chain is not caught in _get_order_emergency.
on_classifier_error(record) == Raise(record, Exception(ClassifierErrorText))

\* Mutant: the update request is not put into the record.
after_dispatch_no_request(record, request_body, response) ==
    [record EXCEPT !.order_update_response = Some(response)]

\* The record after both dispatch calls returned.
after_dispatch(record, request_body, response) ==
    [record EXCEPT !.order_update_request = Some(request_body),
                   !.order_update_response = Some(response)]

----------------------------------------------------------------------------
(* State machine of the pipeline                                           *)

NewOrder ==
    [orderStatusId |-> PENDING, responsibleDeptId |-> None,
     responsibleUserIds |-> None, inspectorIds |-> None, comments |-> <<>>]

NewFrame ==
    [client |-> "", saved |-> "unset", cfg |-> None,
     responsible_users_ids |-> None, request_body |-> None, response |-> None]

NormalizerIdle ==
    /\ nz_pc = "off"
    /\ nz_query = <<>>
    /\ nz_once = <<>>
    /\ nz_twice = <<>>

ResolverIdle ==
    /\ rs_pc = "off"
    /\ rs_address = <<>>
    /\ rs_result = None

\* The pipeline before any request has arrived.
PipelineIdle ==
    /\ store = <<>>
    /\ domyland = [o \in OrderIds |-> NewOrder]
    /\ pc = [r \in Runs |-> "idle"]
    /\ body = [r \in Runs |-> None]
    /\ history_record = [r \in Runs |-> None]
    /\ frame = [r \in Runs |-> NewFrame]
    /\ calls = [r \in Runs |-> <<>>]
    /\ llm_calls = [r \in Runs |-> <<>>]
    /\ slept = [r \in Runs |-> 0]
    /\ saves = [r \in Runs |-> 0]
    /\ result = [r \in Runs |-> None]
    /\ raised = [r \in Runs |-> None]

Init ==
    /\ store = <<>>
    /\ config \in [Clients -> {None} \cup {Some(c) : c \in Configs}]
    /\ domyland = [o \in OrderIds |-> NewOrder]
    /\ pc = [r \in Runs |-> "idle"]
    /\ body = [r \in Runs |-> None]
    /\ history_record = [r \in Runs |-> None]
    /\ frame = [r \in Runs |-> NewFrame]
    /\ calls = [r \in Runs |-> <<>>]
    /\ llm_calls = [r \in Runs |-> <<>>]
    /\ slept = [r \in Runs |-> 0]
    /\ saves = [r \in Runs |-> 0]
    /\ result = [r \in Runs |-> None]
    /\ raised = [r \in Runs |-> None]
    /\ NormalizerIdle
    /\ ResolverIdle

\* The position and the record of run r after a stage.  An exception goes
\* to the except block if the except clause catches it, and then to the
\* save after the try statement; otherwise it leaves get_emergency_class.
Goto(r, out) ==
    IF out.error = None
    THEN /\ pc' = [pc EXCEPT ![r] = out.pc]
         /\ history_record' = [history_record EXCEPT ![r] = Some(out.record)]
         /\ UNCHANGED raised
    ELSE /\ raised' = [raised EXCEPT ![r] = out.error]
         /\ IF is_caught(out.error[1])
            THEN /\ pc' = [pc EXCEPT ![r] = "save"]
                 /\ history_record' = [history_record EXCEPT ![r] =
                        Some(except_handler(out.record, out.error[1]))]
            ELSE /\ pc' = [pc EXCEPT ![r] = "escaped"]
                 /\ history_record' = [history_record EXCEPT ![r] = Some(out.record)]

\* A request arrives: get_emergency_class is entered and builds its record.
Receive(r) ==
    /\ pc[r] = "idle"
    /\ \E b \in Requests, client \in Clients :
        /\ body' = [body EXCEPT ![r] = Some(b)]
        /\ frame' = [frame EXCEPT ![r].client = client]
        /\ Goto(r, Continue(new_history_record(b), "gates"))
    /\ UNCHANGED <<store, config, domyland, calls, llm_calls, slept, saves, result>>
    /\ UNCHANGED harness_vars

\* The idempotency lookup and the status, config and alert-type gates.
CheckGates(r) ==
    /\ pc[r] = "gates"
    /\ \E lookup_ok \in BOOLEAN :
        LET b == body[r][1]
            client == frame[r].client
            saved == saved_record(store, b.data.orderId, client)
            cfg == get_default_config(client)
            out == run_gates(history_record[r][1], b, client, lookup_ok, saved, cfg)
        IN  /\ Goto(r, out)
            /\ frame' = [frame EXCEPT
                    ![r].saved = IF ~lookup_ok THEN "fail"
                                 ELSE IF saved = None THEN "none" ELSE "some",
                    ![r].cfg = IF out.pc = "fetch" THEN cfg ELSE None]
    /\ UNCHANGED <<store, config, domyland, body, calls, llm_calls, slept, saves, result>>
    /\ UNCHANGED harness_vars

\* _get_order_details_by_id and the extraction of comment and address.
GetOrderDetails(r) ==
    /\ pc[r] = "fetch"
    /\ \E auth_ok \in BOOLEAN, resp \in HttpOutcomes :
        LET failure == operation_failure("OrderDetails GET", auth_ok, resp)
            record == history_record[r][1]
        IN  /\ calls' = [calls EXCEPT ![r] = @ \o operation_calls("order_info", auth_ok, resp)]
            /\ IF failure # None
               THEN Goto(r, Raise(record, failure[1]))
               ELSE \E order_details \in DetailsSet :
                        Goto(r, after_order_details(record, frame[r].cfg[1], order_details))
    /\ UNCHANGED <<store, config, domyland, body, frame, llm_calls, slept, saves, result>>
    /\ UNCHANGED harness_vars

\* The arguments of one call of the classification chain.
classifier_call(r) ==
    [prompt |-> frame[r].cfg[1].emergency_prompt, client |-> frame[r].client,
     query |-> history_record[r][1].order_normalized_query[1]]

\* The chain raises RateLimitError: sleep, then call _get_order_emergency
\* again, one frame deeper.  At most `most` rate-limit signals are followed.
ClassifierRateLimitedWithin(r, most) ==
    /\ pc[r] = "classify"
    /\ Len(llm_calls[r]) < most
    /\ llm_calls' = [llm_calls EXCEPT ![r] = Append(@, classifier_call(r))]
    /\ slept' = [slept EXCEPT ![r] = @ + WAIT_TIME_IN_SEC]
    /\ Goto(r, on_rate_limit(history_record[r][1]))
    /\ UNCHANGED <<store, config, domyland, body, frame, calls, saves, result>>
    /\ UNCHANGED harness_vars

ClassifierRateLimited(r) == ClassifierRateLimitedWithin(r, MaxRateLimits)

\* The retry is a call of _get_order_emergency from inside its own except
\* clause, so every rate-limit signal leaves one more frame on the
\* interpreter's stack: with PY_RECURSION_LIMIT frames of it the next call
\* raises RecursionError, which no frame's "except RateLimitError" catches.
ClassifierRecursionLimit(r) ==
    /\ pc[r] = "classify"
    /\ Len(llm_calls[r]) = PY_RECURSION_LIMIT
    /\ Goto(r, Raise(history_record[r][1], Exception(RecursionErrorText)))
    /\ UNCHANGED <<store, config, domyland, body, frame, calls, llm_calls, slept,
                   saves, result>>
    /\ UNCHANGED harness_vars

\* The chain raises anything else: it reaches the except block.
ClassifierFailed(r) ==
    /\ pc[r] = "classify"
    /\ llm_calls' = [llm_calls EXCEPT ![r] = Append(@, classifier_call(r))]
    /\ Goto(r, on_classifier_error(history_record[r][1]))
    /\ UNCHANGED <<store, config, domyland, body, frame, calls, slept, saves, result>>
    /\ UNCHANGED harness_vars

\* The chain returns a label: is_emergency, the resolver, the disabled markers.
ClassifierReturned(r) ==
    /\ pc[r] = "classify"
    /\ \E order_emergency \in Labels :
        LET out == after_classification(history_record[r][1], frame[r].cfg[1],
                                        order_emergency)
        IN  /\ Goto(r, out)
            /\ frame' = [frame EXCEPT ![r].responsible_users_ids =
                    IF out.pc = "update"
                    THEN get_responsible_users_ids_by_order_address(
                            history_record[r][1].order_address[1])
                    ELSE None]
    /\ llm_calls' = [llm_calls EXCEPT ![r] = Append(@, classifier_call(r))]
    /\ UNCHANGED <<store, config, domyland, body, calls, slept, saves, result>>
    /\ UNCHANGED harness_vars

\* _update_order_status_details
UpdateOrderStatus(r) ==
    /\ pc[r] = "update"
    /\ \E auth_ok \in BOOLEAN, resp \in HttpOutcomes, accepted \in BOOLEAN :
        LET failure == operation_failure("Order status UPDATE", auth_ok, resp)
            order_id == history_record[r][1].order_id
            req_body == status_update_request(frame[r].responsible_users_ids[1])
        IN  /\ accepted \in request_accepted(auth_ok, resp)
            /\ calls' = [calls EXCEPT ![r] = @ \o operation_calls("status_update", auth_ok, resp)]
            /\ domyland' = IF accepted
                           THEN [domyland EXCEPT ![order_id] =
                                    apply_status_update(@, req_body)]
                           ELSE domyland
            /\ IF failure # None
               THEN /\ Goto(r, Raise(history_record[r][1], failure[1]))
                    /\ UNCHANGED frame
               ELSE /\ Goto(r, Continue(history_record[r][1], "chat"))
                    /\ frame' = [frame EXCEPT ![r].request_body = Some(req_body),
                                              ![r].response = Some(StatusUpdateResponse)]
    /\ UNCHANGED <<store, config, body, llm_calls, slept, saves, result>>
    /\ UNCHANGED harness_vars

\* _send_message_to_internal_chat, then the update request and response are
\* put into the record.
SendMessageToInternalChat(r) ==
    /\ pc[r] = "chat"
    /\ \E auth_ok \in BOOLEAN, resp \in HttpOutcomes, accepted \in BOOLEAN :
        LET failure == operation_failure("Order internal chat POST", auth_ok, resp)
            order_id == history_record[r][1].order_id
        IN  /\ accepted \in request_accepted(auth_ok, resp)
            /\ calls' = [calls EXCEPT ![r] = @ \o operation_calls("chat", auth_ok, resp)]
            /\ domyland' = IF accepted
                           THEN [domyland EXCEPT ![order_id] =
                                    apply_chat_message(@, ORDER_PROCESSED_BY_AI_MESSAGE)]
                           ELSE domyland
            /\ IF failure # None
               THEN Goto(r, Raise(history_record[r][1], failure[1]))
               ELSE Goto(r, Continue(
                            after_dispatch(history_record[r][1],
                                           frame[r].request_body[1],
                                           frame[r].response[1]),
                            "save"))
    /\ UNCHANGED <<store, config, body, frame, llm_calls, slept, saves, result>>
    /\ UNCHANGED harness_vars

\* After the try block: the record is saved and returned.
Save(r) ==
    /\ pc[r] = "save"
    /\ store' = save_order_classification_record(store, history_record[r][1],
                                                 frame[r].client)
    /\ saves' = [saves EXCEPT ![r] = @ + 1]
    /\ result' = [result EXCEPT ![r] = Some(store'[Len(store')])]
    /\ pc' = [pc EXCEPT ![r] = "done"]
    /\ UNCHANGED <<config, domyland, body, history_record, frame, calls, llm_calls,
                   slept, raised>>
    /\ UNCHANGED harness_vars

Next ==
    \E r \in Runs :
        \/ Receive(r)
        \/ CheckGates(r)
        \/ GetOrderDetails(r)
        \/ ClassifierRateLimited(r)
        \/ ClassifierFailed(r)
        \/ ClassifierReturned(r)
        \/ UpdateOrderStatus(r)
        \/ SendMessageToInternalChat(r)
        \/ Save(r)

Spec == Init /\ [][Next]_vars

----------------------------------------------------------------------------
(* One run with a classifier that may go on raising the rate-limit signal   *)
(* until the interpreter's stack is used up                                 *)

RetryRun == "r1"

NextRetry ==
    \/ Receive(RetryRun)
    \/ CheckGates(RetryRun)
    \/ GetOrderDetails(RetryRun)
    \/ ClassifierRateLimitedWithin(RetryRun, PY_RECURSION_LIMIT)
    \/ ClassifierRecursionLimit(RetryRun)
    \/ ClassifierFailed(RetryRun)
    \/ ClassifierReturned(RetryRun)
    \/ UpdateOrderStatus(RetryRun)
    \/ SendMessageToInternalChat(RetryRun)
    \/ Save(RetryRun)

SpecRetry == Init /\ [][NextRetry]_vars

----------------------------------------------------------------------------
(* Harness of the text normalizer: an input string is normalized, and the  *)
(* output is normalized again                                              *)

\* Pieces the input strings are built from: a URL prefix, an ordinary
\* character, whitespace, and the two words of the photo placeholder.
Tokens == {HTTP, <<"x">>, <<" ">>, <<"\n">>, <<"P">>, <<"F">>}

RECURSIVE Flatten(_)
Flatten(pieces) ==
    IF pieces = <<>> THEN <<>> ELSE Head(pieces) \o Flatten(Tail(pieces))

NormalizerInputs ==
    {Flatten(pieces) : pieces \in UNION {[1..n -> Tokens] : n \in 0..MaxTokens}}

InitNorm ==
    /\ store = <<>>
    /\ config = [c \in Clients |-> None]
    /\ domyland = [o \in OrderIds |-> NewOrder]
    /\ pc = [r \in Runs |-> "idle"]
    /\ body = [r \in Runs |-> None]
    /\ history_record = [r \in Runs |-> None]
    /\ frame = [r \in Runs |-> NewFrame]
    /\ calls = [r \in Runs |-> <<>>]
    /\ llm_calls = [r \in Runs |-> <<>>]
    /\ slept = [r \in Runs |-> 0]
    /\ saves = [r \in Runs |-> 0]
    /\ result = [r \in Runs |-> None]
    /\ raised = [r \in Runs |-> None]
    /\ nz_pc = "input"
    /\ nz_query \in NormalizerInputs
    /\ nz_once = <<>>
    /\ nz_twice = <<>>
    /\ ResolverIdle

NormalizeOnce ==
    /\ nz_pc = "input"
    /\ nz_once' = normalize_resident_request_string(nz_query)
    /\ nz_pc' = "once"
    /\ UNCHANGED <<nz_query, nz_twice>>
    /\ UNCHANGED pipeline_vars
    /\ UNCHANGED resolver_vars

NormalizeAgain ==
    /\ nz_pc = "once"
    /\ nz_twice' = normalize_resident_request_string(nz_once)
    /\ nz_pc' = "twice"
    /\ UNCHANGED <<nz_query, nz_once>>
    /\ UNCHANGED pipeline_vars
    /\ UNCHANGED resolver_vars

NextNorm == NormalizeOnce \/ NormalizeAgain

SpecNorm == InitNorm /\ [][NextNorm]_vars

----------------------------------------------------------------------------
(* Harness of the responsible-party resolver: the resolver is called with  *)
(* an order address                                                        *)

\* Characters the order addresses are built from.
AddressChars == {"L", "l", "e", "s", "M", "x", " "}

AddressInputs == UNION {[1..n -> AddressChars] : n \in 0..MaxAddressLen}

InitResolver ==
    /\ PipelineIdle
    /\ config = [c \in Clients |-> None]
    /\ NormalizerIdle
    /\ rs_pc = "input"
    /\ rs_address \in AddressInputs
    /\ rs_result = None

Resolve ==
    /\ rs_pc = "input"
    /\ rs_result' = get_responsible_users_ids_by_order_address(rs_address)
    /\ rs_pc' = "returned"
    /\ UNCHANGED rs_address
    /\ UNCHANGED pipeline_vars
    /\ UNCHANGED normalizer_vars

NextResolver == Resolve

SpecResolver == InitResolver /\ [][NextResolver]_vars

----------------------------------------------------------------------------
(* Vocabulary of the properties                                            *)

Started(r) == pc[r] # "idle"

Done(r) == pc[r] = "done"

Rec(r) == history_record[r][1]

Req(r) == body[r][1]

\* Rows of the history store of one (order id, client) pair.
RowsOf(order_id, client) ==
    {i \in DOMAIN store :
        store[i].record.order_id = order_id /\ store[i].client = client}

\* Run r sent the named call to the order-management system.
Sent(r, op) == \E i \in DOMAIN calls[r] : calls[r][i].op = op

NoDispatchCall(r) == ~Sent(r, "status_update") /\ ~Sent(r, "chat")

\* Every call run r sent to the order-management system was answered 2xx.
AllCallsOk(r) == \A i \in DOMAIN calls[r] : calls[r][i].resp = "ok"

Ops(r) == [i \in DOMAIN calls[r] |-> calls[r][i].op]

\* The idempotency lookup of run r found no record.
PassedIdempotencyGate(r) == frame[r].saved = "none"

\* The idempotency lookup of run r found a record.
Conflicted(r) == frame[r].saved = "some"

SamePair(r1, r2) ==
    /\ Req(r1).data.orderId = Req(r2).data.orderId
    /\ frame[r1].client = frame[r2].client

----------------------------------------------------------------------------
(* C1 -- audit write                                                       *)

\* C1: every run of get_emergency_class that has ended has called
\* save_order_classification_record exactly once, as its last step (no run
\* that has not ended has called it), whatever the outcome, and has returned
\* the saved row; no run ends by an exception leaving the function.
C1_SaveExactlyOnceAtEnd ==
    \A r \in Runs :
        /\ pc[r] # "escaped"
        /\ saves[r] = IF Done(r) THEN 1 ELSE 0
        /\ Done(r) =>
            /\ result[r] # None
            /\ \E i \in DOMAIN store :
                /\ store[i] = result[r][1]
                /\ store[i].record = Rec(r)

\* Runs that ended after a failed gate, a failed external call and without
\* failure have all saved.
C1_Witness ==
    /\ Done("r1") /\ Done("r2")
    /\ Rec("r1").is_error = Some(TRUE) /\ Sent("r1", "status_update")
    /\ Rec("r2").is_error = None

----------------------------------------------------------------------------
(* C2 -- idempotency conflict                                              *)

\* C2: a run for an (order id, client) pair that already has a record ends
\* with the Conflict outcome, does not write to the history store, and the
\* store holds no second record of the pair.
C2_ConflictDoesNotWrite ==
    \A r \in Runs :
        (Done(r) /\ Conflicted(r)) =>
            /\ Rec(r).is_error = Some(TRUE)
            /\ saves[r] = 0
            /\ Cardinality(RowsOf(Req(r).data.orderId, frame[r].client)) <= 1

----------------------------------------------------------------------------
(* C3 -- concurrent runs for one pair                                      *)

\* C3: two runs for the same (order id, client) pair never both pass the
\* idempotency gate, at most one of them calls the classifier or the
\* order-management system's update operations, and at most one record of
\* the pair is ever stored.
C3_AtMostOnePassesGate ==
    \A r1, r2 \in Runs :
        (r1 # r2 /\ Started(r1) /\ Started(r2) /\ SamePair(r1, r2)) =>
            /\ ~(PassedIdempotencyGate(r1) /\ PassedIdempotencyGate(r2))
            /\ ~(llm_calls[r1] # <<>> /\ llm_calls[r2] # <<>>)
            /\ ~(Sent(r1, "status_update") /\ Sent(r2, "status_update"))
            /\ Cardinality(RowsOf(Req(r1).data.orderId, frame[r1].client)) <= 1

----------------------------------------------------------------------------
(* C4 -- status gate                                                       *)

\* C4: a run whose order status id is not PENDING and whose idempotency
\* lookup found no record ends with error set and the comment naming the
\* required status, and sends no call to the order-management system (so no
\* status update and no chat post) and none to the classifier.
C4_NotPendingIsInvalidState ==
    \A r \in Runs :
        (Started(r) /\ PassedIdempotencyGate(r)
            /\ Req(r).data.orderStatusId # PENDING) =>
            /\ pc[r] \in {"save", "done"}
            /\ Rec(r).is_error = Some(TRUE)
            /\ Rec(r).comment =
                Some(<<"Order with ID ">> \o IntStr(Req(r).data.orderId)
                     \o <<" has status ID ">> \o IntStr(Req(r).data.orderStatusId)
                     \o <<", but status ID ", "1", " required">>)
            /\ calls[r] = <<>>
            /\ llm_calls[r] = <<>>

C4_Witness ==
    \E r \in Runs :
        /\ Done(r) /\ PassedIdempotencyGate(r)
        /\ Req(r).data.orderStatusId = IN_PROGRESS
        /\ Req(r).alertTypeId = NEW_ORDER
        /\ config[frame[r].client] # None

----------------------------------------------------------------------------
(* C5 -- classification disabled                                           *)

\* The client of run r has a config with emergency classification disabled.
ClassificationDisabled(r) ==
    /\ Started(r)
    /\ config[frame[r].client] # None
    /\ ~config[frame[r].client][1].is_use_emergency_classification

SkippedMarker == <<"skipped by emergency classification config of user with ID ", "1">>

\* C5 as claimed: with classification disabled, every run that has ended has
\* is_emergency unset and the marker in order_emergency, called no
\* classifier and sent neither the status update nor the chat post.
C5_DisabledAlwaysMarked ==
    \A r \in Runs :
        (ClassificationDisabled(r) /\ Done(r)) =>
            /\ Rec(r).is_emergency = None
            /\ Rec(r).order_emergency = Some(SkippedMarker)
            /\ llm_calls[r] = <<>>
            /\ NoDispatchCall(r)

\* C5 as amended: with classification disabled, in every run is_emergency
\* stays unset, the classifier is not called and neither the status update
\* nor the chat post is sent, whatever the order-updating switch says; the
\* run that ends without error has the marker in order_emergency, the run
\* that ends with an error (a gate or the order-details fetch failed) has
\* order_emergency unset.
C5_DisabledNeverClassifies ==
    \A r \in Runs :
        ClassificationDisabled(r) =>
            /\ Rec(r).is_emergency = None
            /\ llm_calls[r] = <<>>
            /\ NoDispatchCall(r)
            /\ Done(r) =>
                Rec(r).order_emergency =
                    IF Rec(r).is_error = None THEN Some(SkippedMarker) ELSE None

C5_Witness ==
    \E r \in Runs :
        /\ ClassificationDisabled(r) /\ Done(r)
        /\ config[frame[r].client][1].is_use_order_updating
        /\ Rec(r).is_error = None
        /\ Rec(r).order_emergency = Some(SkippedMarker)
        /\ Rec(r).order_address = Some(<<"L", "e", " ", "5">>)

----------------------------------------------------------------------------
(* C6 -- order updating disabled                                           *)

\* The labels of the model that are the affirmative label up to case and
\* surrounding whitespace.
AffirmativeLabels == { <<"a", "v">>, <<" ", "A", "V", "\n">> }

\* The classifier of run r returned an affirmative label.
ClassifiedAffirmative(r) ==
    /\ Started(r)
    /\ Rec(r).order_emergency # None
    /\ Rec(r).order_emergency[1] \in AffirmativeLabels

\* The config run r loaded has the given switches.
LoadedConfig(r, use_classification, use_updating) ==
    /\ frame[r].cfg # None
    /\ frame[r].cfg[1].is_use_emergency_classification = use_classification
    /\ frame[r].cfg[1].is_use_order_updating = use_updating

\* C6: classification enabled, order updating disabled, the classifier
\* returned the affirmative label and the address matches a unit (unit 7 for
\* "Le 5", unit 9 for "M"): the unit is in uds_id, the update request and
\* response hold the marker, no status update and no chat post is sent, and
\* the run goes on to the save without error.
C6_UpdatingDisabledRecordsUnit ==
    \A r \in Runs :
        (ClassifiedAffirmative(r) /\ LoadedConfig(r, TRUE, FALSE)
            /\ Rec(r).order_address \in {Some(<<"L", "e", " ", "5">>), Some(<<"M">>)}) =>
            /\ Rec(r).is_emergency = Some(TRUE)
            /\ Rec(r).uds_id =
                IF Rec(r).order_address = Some(<<"M">>)
                THEN Some(<<"[", "9", "]">>) ELSE Some(<<"[", "7", "]">>)
            /\ Rec(r).order_update_request = Some([result |-> SkippedMarker])
            /\ Rec(r).order_update_response = Some([result |-> SkippedMarker])
            /\ NoDispatchCall(r)
            /\ Rec(r).is_error = None
            /\ pc[r] \in {"save", "done"}

C6_Witness ==
    \E r \in Runs :
        /\ Done(r) /\ ClassifiedAffirmative(r) /\ LoadedConfig(r, TRUE, FALSE)
        /\ Rec(r).order_address = Some(<<"L", "e", " ", "5">>)
        /\ Rec(r).uds_id = Some(<<"[", "7", "]">>)

----------------------------------------------------------------------------
(* C7 -- failures are captured                                             *)

----------------------------------------------------------------------------
(* C8 -- end-to-end emergency dispatch                                     *)

\* The scenario of C8 in run r: no earlier record, a PENDING order, alert
\* type NEW_ORDER, both switches enabled, a non-blank comment, the address
\* "Le 5" (matched by unit 7 alone), an affirmative classifier answer, and an
\* order-management system that answers every call with 2xx.
EndToEndScenario(r) ==
    /\ Done(r)
    /\ PassedIdempotencyGate(r)
    /\ Req(r).data.orderStatusId = PENDING
    /\ Req(r).alertTypeId = NEW_ORDER
    /\ LoadedConfig(r, TRUE, TRUE)
    /\ Rec(r).order_query # None
    /\ Strip(Rec(r).order_query[1]) # <<>>
    /\ Rec(r).order_address = Some(<<"L", "e", " ", "5">>)
    /\ ClassifiedAffirmative(r)
    /\ AllCallsOk(r)

\* C8: in the end-to-end scenario the run sends exactly one status update
\* and then one chat post (each after its own authentication), and the saved
\* record has is_emergency = true, uds_id = "[7]", the update request and
\* response, and error not set.
C8_EndToEndDispatch ==
    \A r \in Runs :
        EndToEndScenario(r) =>
            /\ Ops(r) = <<"auth", "order_info", "auth", "status_update", "auth", "chat">>
            /\ Rec(r).is_emergency = Some(TRUE)
            /\ Rec(r).uds_id = Some(<<"[", "7", "]">>)
            /\ Rec(r).order_update_request =
                Some([responsibleDeptId |-> 38, orderStatusId |-> 2,
                      responsibleUserIds |-> <<7>>, inspectorIds |-> <<15698>>])
            /\ Rec(r).order_update_response = Some(StatusUpdateResponse)
            /\ Rec(r).is_error = None
            /\ Rec(r).comment = None
            /\ result[r][1].record = Rec(r)
            /\ domyland[Req(r).data.orderId].orderStatusId = IN_PROGRESS
            /\ domyland[Req(r).data.orderId].comments # <<>>

C8_Witness ==
    \E r \in Runs :
        /\ EndToEndScenario(r)
        /\ Req(r).data.orderId = 42
        /\ slept[r] = 0
        /\ domyland[42].responsibleUserIds = Some(<<7>>)

----------------------------------------------------------------------------
(* C9 -- rate-limit retry                                                  *)

\* The classifier of run r returned a label.
ClassifierAnswered(r) == Started(r) /\ Rec(r).is_emergency # None

\* Two runs that got the same request, order details, label and call
\* outcomes.
SameInputs(r1, r2) ==
    /\ Req(r1) = Req(r2)
    /\ frame[r1].client = frame[r2].client
    /\ Rec(r1).order_details = Rec(r2).order_details
    /\ Rec(r1).order_emergency = Rec(r2).order_emergency
    /\ calls[r1] = calls[r2]

----------------------------------------------------------------------------
(* C10 -- the normalizer is idempotent                                     *)

\* C10: normalize(normalize(x)) = normalize(x) for every input string x.
C10_NormalizerIsIdempotent ==
    nz_pc = "twice" => nz_twice = nz_once

----------------------------------------------------------------------------
(* C11 -- the normalizer removes URLs                                      *)

\* Positions of s where "http" starts.
HttpAt(s) ==
    {i \in 1..(Len(s) - Len(HTTP) + 1) : SubSeq(s, i, i + Len(HTTP) - 1) = HTTP}

\* C11 as claimed: for every input string the normalized output contains no
\* occurrence of "http".
C11_NoHttpInOutput ==
    nz_pc # "input" => HttpAt(nz_once) = {}

\* C11 as amended: in the normalized output no "http" is followed by a
\* non-whitespace character (no match of http\S+ is left); an "http" that
\* is followed by whitespace or ends the string when the URL step runs is
\* not a match and is kept.
C11_NoUrlInOutput ==
    nz_pc # "input" =>
        \A i \in HttpAt(nz_once) :
            i + Len(HTTP) - 1 = Len(nz_once) \/ nz_once[i + Len(HTTP)] = " "

\* Two URLs and a line break go in, no "http" comes out.
C11_Witness ==
    /\ nz_pc # "input"
    /\ nz_query = <<"h", "t", "t", "p", "x", "\n", "h", "t", "t", "p", "x">>
    /\ nz_once = <<" ">>

----------------------------------------------------------------------------
(* C12 -- the responsible-party resolver                                   *)

\* The configured units, in configured order: the id and the address
\* substrings of each, in lower case.
ConfiguredUnits ==
    << [id |-> 7, substrings |-> { <<"l", "e">> }],
       [id |-> 9, substrings |-> { <<"l", "e", "s">>, <<"m">> }] >>

\* Indexes of the configured units with an address substring contained,
\* case-insensitively, in the address.
MatchingUnits(address) ==
    {k \in DOMAIN ConfiguredUnits :
        \E sub \in ConfiguredUnits[k].substrings : Contains(sub, Lower(address))}

\* C12: the resolver returns the id of the first configured unit with an
\* address substring contained case-insensitively in the order address (so
\* unit 7, scanned first, when "le" of unit 7 and "les" of unit 9 both
\* match), and returns none exactly when no unit has such a substring.
C12_ResolverReturnsFirstMatch ==
    rs_pc = "returned" =>
        LET matching == MatchingUnits(rs_address)
        IN  IF matching = {}
            THEN rs_result = None
            ELSE \E k \in matching :
                    /\ \A other \in matching : k <= other
                    /\ rs_result = Some(<<ConfiguredUnits[k].id>>)

\* "xLes": the substrings of unit 7 and of unit 9 are both contained, in
\* another case, and unit 7 is returned.
C12_Witness ==
    /\ rs_pc = "returned"
    /\ rs_address = <<"x", "L", "e", "s">>
    /\ MatchingUnits(rs_address) = {1, 2}
    /\ rs_result = Some(<<7>>)

----------------------------------------------------------------------------
(* C13 -- no responsible unit is a hard stop                               *)

\* The address "x", which no configured unit matches.
UnmatchedAddress == <<"x">>

\* C13: the classifier returned the affirmative label and no unit matches
\* the order address: the run is at the save with error = true and the
\* comment naming the order and the address, has sent neither the status
\* update nor the chat post, and has assigned no unit (the record holds no
\* unit id, no update request and no update response, and the run has no
\* unit to dispatch to), whether or not order updating is enabled.
C13_NoUnitIsHardStop ==
    \A r \in Runs :
        (ClassifiedAffirmative(r) /\ Rec(r).order_address = Some(UnmatchedAddress)) =>
            /\ pc[r] \in {"save", "done"}
            /\ Rec(r).is_error = Some(TRUE)
            /\ Rec(r).comment =
                Some(<<"Cannot find responsible UDS for order with ID ">>
                     \o IntStr(Req(r).data.orderId)
                     \o <<" and address '", "x", "'">>)
            /\ NoDispatchCall(r)
            /\ Rec(r).uds_id = Some(<<"N", "o", "n", "e">>)
            /\ Rec(r).order_update_request = None
            /\ Rec(r).order_update_response = None
            /\ frame[r].responsible_users_ids = None

\* One client with order updating enabled whose run stopped at the missing
\* unit and left the order as it was.
C13_Witness ==
    \E r \in Runs :
        /\ Done(r) /\ ClassifiedAffirmative(r) /\ LoadedConfig(r, TRUE, TRUE)
        /\ Rec(r).order_address = Some(UnmatchedAddress)
        /\ Rec(r).is_error = Some(TRUE)
        /\ domyland[Req(r).data.orderId] = NewOrder

\* The same stop with order updating disabled.
C13_WitnessUpdatingDisabled ==
    \E r \in Runs :
        /\ Done(r) /\ ClassifiedAffirmative(r) /\ LoadedConfig(r, TRUE, FALSE)
        /\ Rec(r).order_address = Some(UnmatchedAddress)
        /\ Rec(r).is_error = Some(TRUE)

----------------------------------------------------------------------------
(* C14 -- preconditions of every dispatch call                             *)

\* C14: a run has sent a status-update or chat-post call only if its
\* idempotency lookup found no record, the order status was PENDING, the
\* alert type was NEW_ORDER, the config had classification and order
\* updating both enabled, the classifier returned the affirmative label and
\* the resolver returned a unit for the order address.
C14_DispatchOnlyWhenAllHold ==
    \A r \in Runs :
        (Sent(r, "status_update") \/ Sent(r, "chat")) =>
            /\ PassedIdempotencyGate(r)
            /\ Req(r).data.orderStatusId = PENDING
            /\ Req(r).alertTypeId = NEW_ORDER
            /\ LoadedConfig(r, TRUE, TRUE)
            /\ config[frame[r].client] # None
            /\ config[frame[r].client][1].is_use_emergency_classification
            /\ config[frame[r].client][1].is_use_order_updating
            /\ ClassifiedAffirmative(r)
            /\ Rec(r).is_emergency = Some(TRUE)
            /\ Rec(r).order_address # None
            /\ MatchingUnits(Rec(r).order_address[1]) # {}
            /\ frame[r].responsible_users_ids # None
            /\ Sent(r, "order_info")

\* One run sent both dispatch calls, the other sent a status update that
\* the order-management system refused.
C14_Witness ==
    /\ Done("r1") /\ Done("r2")
    /\ Sent("r1", "status_update") /\ Sent("r1", "chat")
    /\ Rec("r1").is_error = None
    /\ Sent("r2", "status_update") /\ ~Sent("r2", "chat")
    /\ Rec("r2").is_error = Some(TRUE)

----------------------------------------------------------------------------
(* C15 -- order of the gates                                               *)

\* The comment of run r holds the given piece of text.
CommentHas(r, piece) ==
    /\ Rec(r).comment # None
    /\ \E i \in DOMAIN Rec(r).comment[1] : Rec(r).comment[1][i] = piece

\* The order-details fetch of run r failed: its last call is one of the
\* fetch (authentication, lookup) and was not answered with a 2xx JSON body.
FetchFailed(r) ==
    /\ calls[r] # <<>>
    /\ Len(calls[r]) <= 2
    /\ calls[r][Len(calls[r])].resp # "ok"

\* The gate whose error the record of run r holds, told from the comment:
\* 1 idempotency, 2 status, 3 config, 4 alert type, 5 fetch details,
\* 6 comment, 7 address, 8 classify, 9 dispatch; 0 without error.
FailedGate(r) ==
    IF Rec(r).is_error = None THEN 0
    ELSE IF CommentHas(r, " was already classified, history record ID ")
            \/ CommentHas(r, "history store error") THEN 1
    ELSE IF CommentHas(r, " has status ID ") THEN 2
    ELSE IF CommentHas(r, ") not found") THEN 3
    ELSE IF CommentHas(r, " has alert type ID ") THEN 4
    ELSE IF FetchFailed(r) THEN 5
    ELSE IF CommentHas(r, " has no comment, cannot classify emergency") THEN 6
    ELSE IF CommentHas(r, " has no address, cannot find responsible UDS") THEN 7
    ELSE IF CommentHas(r, "classifier error") THEN 8
    ELSE 9

\* The last TEXT/COMMENT value and the last OBJECT value of the fetched
\* order details are missing or blank.
CommentBlank(r) ==
    LET form == Rec(r).order_details[1].service.orderForm
        texts == {i \in DOMAIN form : form[i].type = "TEXT" /\ form[i].title = "COMMENT"}
    IN  \/ texts = {}
        \/ \E i \in texts :
            /\ \A j \in texts : j <= i
            /\ \A k \in DOMAIN form[i].value : form[i].value[k] \in Whitespace

AddressBlank(r) ==
    LET summary == Rec(r).order_details[1].order.summary
        objects == {i \in DOMAIN summary : summary[i].title = "OBJECT"}
    IN  \/ objects = {}
        \/ \E i \in objects :
            /\ \A j \in objects : j <= i
            /\ \A k \in DOMAIN summary[i].value : summary[i].value[k] \in Whitespace

\* The first gate, in the order of FailedGate, that the inputs of run r
\* violate, as far as the inputs decide it (the gates 1 to 7); 0 if none.
FirstViolatedGate(r) ==
    LET cfg == config[frame[r].client]
        use == cfg # None /\ cfg[1].is_use_emergency_classification
    IN  IF frame[r].saved \in {"some", "fail"} THEN 1
        ELSE IF Req(r).data.orderStatusId # PENDING THEN 2
        ELSE IF cfg = None THEN 3
        ELSE IF use /\ Req(r).alertTypeId # NEW_ORDER THEN 4
        ELSE IF FetchFailed(r) THEN 5
        ELSE IF Rec(r).order_details = None THEN 0
        ELSE IF use /\ CommentBlank(r) THEN 6
        ELSE IF use /\ AddressBlank(r) THEN 7
        ELSE 0

\* C15: the gates are evaluated in the order idempotency, status, config,
\* alert type, fetch details, comment, address, classify, dispatch.  A run
\* that is past a violated gate holds the error of the first gate its
\* inputs violate, whatever later gates they violate too; a run without a
\* violated gate fails, if at all, in the classifier or the dispatch; and
\* nothing of a later gate has happened: no call and no order details after
\* a failed gate 1 to 4, no comment after a failed fetch, no address after a
\* failed comment check, no classifier call after a failed gate 1 to 7, no
\* resolved unit and no dispatch call after a failed classifier.
C15_FirstFailingGateDecides ==
    \A r \in Runs :
        pc[r] \in {"save", "done"} =>
            LET failed == FailedGate(r)
                violated == FirstViolatedGate(r)
            IN  /\ violated # 0 => failed = violated
                /\ violated = 0 => failed \in {0, 8, 9}
                /\ failed \in 1..4 =>
                    (calls[r] = <<>> /\ Rec(r).order_details = None)
                /\ failed \in 1..5 =>
                    (Rec(r).order_details = None /\ Rec(r).order_query = None)
                /\ failed \in 1..6 => Rec(r).order_address = None
                /\ failed \in 1..7 =>
                    (llm_calls[r] = <<>> /\ Rec(r).order_normalized_query = None)
                /\ failed \in 1..8 =>
                    (Rec(r).order_emergency = None /\ Rec(r).uds_id = None
                        /\ NoDispatchCall(r))

\* The two examples of the claim, one after the other for one order of a
\* client without config: a non-PENDING order gets InvalidState although the
\* config is missing too; the next run for it gets Conflict although status
\* and config fail as well.
C15_Witness ==
    /\ Done("r1") /\ Done("r2")
    /\ config["vysota"] = None
    /\ Req("r1").data.orderStatusId = IN_PROGRESS
    /\ Req("r2").data.orderStatusId = IN_PROGRESS
    /\ Req("r2").alertTypeId # NEW_ORDER
    /\ FailedGate("r1") = 2
    /\ FailedGate("r2") = 1
    /\ CommentHas("r2", " was already classified, history record ID ")

\* A run whose order details have neither comment nor address fails on the
\* comment.
C15_WitnessCommentBeforeAddress ==
    \E r \in Runs :
        /\ Done(r) /\ FailedGate(r) = 6
        /\ Rec(r).order_details # None
        /\ CommentBlank(r) /\ AddressBlank(r)

----------------------------------------------------------------------------
(* C16 -- a failed early gate makes no external call                       *)

\* The request of run r violates the idempotency, status, config or
\* alert-type gate.
EarlyGateViolated(r) ==
    LET cfg == config[frame[r].client]
    IN  \/ frame[r].saved \in {"some", "fail"}
        \/ Req(r).data.orderStatusId # PENDING
        \/ cfg = None
        \/ (cfg[1].is_use_emergency_classification /\ Req(r).alertTypeId # NEW_ORDER)

\* C16: a run that is past the gates with a request that violates the
\* idempotency, status, config or alert-type gate has failed there and has
\* sent no call to the order-management system (no authentication, no
\* lookup, no status update, no chat post), has not called the classifier
\* and has not slept; so has the Conflict run, whatever the earlier record
\* of the order holds.
C16_EarlyGateFailureMakesNoCall ==
    \A r \in Runs :
        (pc[r] \notin {"idle", "gates"} /\ EarlyGateViolated(r)) =>
            /\ pc[r] \in {"save", "done"}
            /\ FailedGate(r) \in 1..4
            /\ calls[r] = <<>>
            /\ llm_calls[r] = <<>>
            /\ slept[r] = 0
            /\ Rec(r).order_details = None

\* The first run failed in the order-details fetch and saved its record; the
\* second run for the same order is a Conflict run and made no call.
C16_Witness ==
    /\ Done("r1") /\ Done("r2")
    /\ SamePair("r1", "r2")
    /\ FailedGate("r1") = 5
    /\ Conflicted("r2")
    /\ FailedGate("r2") = 1
    /\ CommentHas("r2", " was already classified, history record ID ")
    /\ calls["r2"] = <<>>
    /\ store[1].record.is_error = Some(TRUE)

----------------------------------------------------------------------------
(* C17 -- a failed order-details fetch                                     *)

\* C17: a run whose order-details fetch failed (the authentication or the
\* lookup was not answered with 2xx) is at the save with error = true and a
\* comment that names the failed operation and carries the upstream body,
\* and has called neither the classifier nor a dispatch operation.
C17_FetchFailureIsAttributed ==
    \A r \in Runs :
        (pc[r] \in {"save", "done"} /\ FetchFailed(r)) =>
            /\ llm_calls[r] = <<>>
            /\ NoDispatchCall(r)
            /\ Rec(r).is_error = Some(TRUE)
            /\ CommentHas(r, "Domyland Auth: ") \/ CommentHas(r, "OrderDetails GET")
            /\ CommentHas(r, "upstream body")

----------------------------------------------------------------------------
(* C18 -- missing or blank comment or address                              *)

\* Run r has fetched the order details with classification enabled.
FetchedForClassification(r) ==
    /\ Started(r)
    /\ Rec(r).order_details # None
    /\ frame[r].cfg # None
    /\ frame[r].cfg[1].is_use_emergency_classification

\* C18: with classification enabled, a run whose comment is missing or
\* blank holds the comment error and no address; a run with a comment whose
\* address is missing or blank holds the address error; in both the
\* classifier has not been called, nothing was normalized or dispatched, and
\* the run is at the save.
C18_BlankInputIsUnprocessable ==
    \A r \in Runs :
        FetchedForClassification(r) =>
            /\ CommentBlank(r) =>
                /\ pc[r] \in {"save", "done"}
                /\ Rec(r).is_error = Some(TRUE)
                /\ Rec(r).comment =
                    Some(<<"Order with ID ">> \o IntStr(Req(r).data.orderId)
                         \o <<" has no comment, cannot classify emergency">>)
                /\ Rec(r).order_address = None
                /\ llm_calls[r] = <<>>
                /\ Rec(r).order_normalized_query = None
                /\ NoDispatchCall(r)
            /\ (~CommentBlank(r) /\ AddressBlank(r)) =>
                /\ pc[r] \in {"save", "done"}
                /\ Rec(r).is_error = Some(TRUE)
                /\ Rec(r).comment =
                    Some(<<"Order with ID ">> \o IntStr(Req(r).data.orderId)
                         \o <<" has no address, cannot find responsible UDS">>)
                /\ Rec(r).order_query # None
                /\ llm_calls[r] = <<>>
                /\ Rec(r).order_normalized_query = None
                /\ NoDispatchCall(r)

\* A whitespace-only comment with an address in the order details, and a
\* comment with a whitespace-only address.
C18_Witness ==
    /\ Done("r1") /\ Done("r2")
    /\ FetchedForClassification("r1") /\ FetchedForClassification("r2")
    /\ Rec("r1").order_query = Some(<<" ">>)
    /\ ~AddressBlank("r1")
    /\ Rec("r1").order_address = None
    /\ FailedGate("r1") = 6
    /\ Rec("r2").order_query = Some(<<"t", "\n", "t">>)
    /\ Rec("r2").order_address = Some(<<" ">>)
    /\ FailedGate("r2") = 7

----------------------------------------------------------------------------
(* C19 -- checks that apply only with classification enabled               *)

\* Run r is for a PENDING order without a prior record, of a client with
\* classification disabled, and is past the gates.
DisabledScenario(r) ==
    /\ ClassificationDisabled(r)
    /\ pc[r] \notin {"idle", "gates"}
    /\ PassedIdempotencyGate(r)
    /\ Req(r).data.orderStatusId = PENDING

\* C19: with classification disabled, a run for a PENDING order without a
\* prior record passes the gates with any alert type and goes to the fetch
\* of the order details; once the fetch (one authentication, one lookup) is
\* answered, whatever comment and address the details hold, the run is at
\* the save without error, with the details, the extracted comment and
\* address and the 'skipped by config' marker in the record, and the record
\* it persists is that one.
C19_DisabledSkipsInputChecks ==
    \A r \in Runs :
        DisabledScenario(r) =>
            /\ pc[r] \in {"fetch", "save", "done"}
            /\ pc[r] = "fetch" => (calls[r] = <<>> /\ Rec(r).is_error = None)
            /\ (pc[r] # "fetch" /\ AllCallsOk(r)) =>
                /\ Ops(r) = <<"auth", "order_info">>
                /\ Rec(r).order_details # None
                /\ Rec(r).is_error = None
                /\ Rec(r).comment = None
                /\ Rec(r).order_emergency = Some(SkippedMarker)
                /\ Rec(r).is_emergency = None
                /\ Done(r) =>
                    \E i \in DOMAIN store : store[i].record = Rec(r)

\* An alert type other than NEW_ORDER and order details with neither comment
\* nor address: the run has ended without error.  The other run had a blank
\* comment and a blank address.
C19_Witness ==
    /\ Done("r1") /\ Done("r2")
    /\ DisabledScenario("r1") /\ DisabledScenario("r2")
    /\ Req("r1").alertTypeId # NEW_ORDER
    /\ Rec("r1").order_details # None
    /\ Rec("r1").order_query = None /\ Rec("r1").order_address = None
    /\ Rec("r1").is_error = None
    /\ Rec("r1").order_emergency = Some(SkippedMarker)
    /\ Rec("r2").order_query = Some(<<" ">>)
    /\ Rec("r2").order_address = Some(<<" ">>)
    /\ Rec("r2").is_error = None

----------------------------------------------------------------------------
(* C20 -- order and failures of the two dispatch calls                     *)

\* The calls of a run are those of the fetch (two), then those of the
\* status update (up to two), then those of the chat post (up to two).
LastCallFailed(r) == calls[r] # <<>> /\ calls[r][Len(calls[r])].resp # "ok"

\* The status update of run r failed: in its authentication or in the PUT.
StatusUpdateFailed(r) == Len(calls[r]) \in {3, 4} /\ LastCallFailed(r)

\* The chat post of run r failed: in its authentication or in the POST.
ChatPostFailed(r) == Len(calls[r]) \in {5, 6} /\ LastCallFailed(r)

----------------------------------------------------------------------------
(* C21 -- audit trail of the dispatch                                      *)

\* The status update of run r was sent and answered with 2xx.
StatusUpdateAccepted(r) ==
    \E i \in DOMAIN calls[r] : calls[r][i] = Call("status_update", "ok")

\* C21: the record persisted by a run whose status update was sent and
\* accepted holds the update request and the update response, also when
\* the chat post after it failed.
C21_AcceptedUpdateIsRecorded ==
    \A r \in Runs :
        (Done(r) /\ StatusUpdateAccepted(r)) =>
            /\ Rec(r).order_update_request # None
            /\ Rec(r).order_update_response # None
            /\ result[r][1].record.order_update_request # None
            /\ result[r][1].record.order_update_response # None

----------------------------------------------------------------------------
(* C22 -- every operation authenticates on its own                         *)

\* Positions of the authentication calls and of the operations' own calls in
\* the call log of run r.
AuthCalls(r) == {i \in DOMAIN calls[r] : calls[r][i].op = "auth"}

OwnCalls(r) == {i \in DOMAIN calls[r] : calls[r][i].op # "auth"}

\* C22: in the call log of every run, an operation's own call comes
\* directly after an authentication that was answered 2xx, an
\* authentication answered 2xx is directly followed by the own call of its
\* operation, and a failed authentication is the last call of the run (the
\* operation's own call is not sent); so the run has authenticated once per
\* operation it started, the lookup, the status update and the chat post
\* each at most once, three times in a full dispatch.
C22_AuthPerOperation ==
    \A r \in Runs :
        /\ \A i \in OwnCalls(r) : i > 1 /\ calls[r][i - 1] = Call("auth", "ok")
        /\ \A i \in AuthCalls(r) :
            IF calls[r][i].resp = "ok"
            THEN i + 1 \in OwnCalls(r)
            ELSE i = Len(calls[r])
        /\ \A i, j \in OwnCalls(r) : calls[r][i].op = calls[r][j].op => i = j
        /\ Cardinality(AuthCalls(r)) =
            Cardinality(OwnCalls(r)) + (IF LastCallFailed(r) /\ Len(calls[r]) \in AuthCalls(r)
                                        THEN 1 ELSE 0)
        /\ Sent(r, "chat") =>
            /\ Cardinality(AuthCalls(r)) = 3
            /\ Ops(r) = <<"auth", "order_info", "auth", "status_update", "auth", "chat">>

\* A full dispatch with three authentications, and a run whose second
\* authentication failed, so that its status update was not sent.
C22_Witness ==
    /\ Done("r1") /\ Done("r2")
    /\ Sent("r1", "chat") /\ AllCallsOk("r1")
    /\ Cardinality(AuthCalls("r1")) = 3
    /\ calls["r2"] = <<Call("auth", "ok"), Call("order_info", "ok"), Call("auth", "error")>>
    /\ CommentHas("r2", "Domyland Auth: ")

----------------------------------------------------------------------------
(* C23 -- the retry has no upper bound                                     *)

\* Every classifier call of run r so far was answered with the rate-limit
\* signal: the run has waited once per call.
OnlyRateLimited(r) ==
    /\ llm_calls[r] # <<>>
    /\ slept[r] = WAIT_TIME_IN_SEC * Len(llm_calls[r])

\* C23: a run whose classifier has answered every call with the rate-limit
\* signal is still at the classifier call, waiting and retrying: it has not
\* reached the audit write and holds no error.
C23_RetryUntilAnswered ==
    \A r \in Runs :
        OnlyRateLimited(r) =>
            /\ pc[r] = "classify"
            /\ Rec(r).is_error = None
            /\ saves[r] = 0

----------------------------------------------------------------------------
(* C24 -- other classifier failures are not retried                        *)

\* The classifier of run r failed with something else than the rate-limit
\* signal.
ClassifierBroke(r) == raised[r] = Some(Exception(ClassifierErrorText))

\* C24: a run still at the classifier call has only seen rate-limit signals
\* (it has waited once per call made); a run whose classifier failed with
\* anything else made that call last and did not wait after it, whether it
\* was the first call or a retry, and is at the save with error = true and
\* the failure's text, with is_emergency, the emergency field and the unit
\* unset and without status-update or chat-post call.
C24_OtherFailurePropagates ==
    \A r \in Runs :
        /\ pc[r] = "classify" => slept[r] = WAIT_TIME_IN_SEC * Len(llm_calls[r])
        /\ ClassifierBroke(r) =>
            /\ pc[r] \in {"save", "done"}
            /\ llm_calls[r] # <<>>
            /\ slept[r] = WAIT_TIME_IN_SEC * (Len(llm_calls[r]) - 1)
            /\ Rec(r).is_error = Some(TRUE)
            /\ Rec(r).comment = Some(<<"classifier error">>)
            /\ Rec(r).order_emergency = None
            /\ Rec(r).is_emergency = None
            /\ Rec(r).uds_id = None
            /\ frame[r].responsible_users_ids = None
            /\ NoDispatchCall(r)
            /\ Ops(r) = <<"auth", "order_info">>

\* The classifier failed at the first call of one run and at the retry
\* after two rate-limit signals of the other.
C24_Witness ==
    /\ Done("r1") /\ Done("r2")
    /\ ClassifierBroke("r1") /\ ClassifierBroke("r2")
    /\ Len(llm_calls["r1"]) = 1 /\ slept["r1"] = 0
    /\ Len(llm_calls["r2"]) = 3 /\ slept["r2"] = 120
    /\ Rec("r2").is_error = Some(TRUE)

----------------------------------------------------------------------------
(* C25 -- is_emergency                                                     *)

\* The answer that starts with the affirmative label and goes on.
OtherLabel == <<"A", "v", " ", "n">>

\* C25: once the classifier has answered, the record holds the raw answer,
\* and is_emergency is true for the affirmative label, written in any case
\* and within any whitespace, and false for every other answer; after
\* another answer the run is at the save without error, has resolved no
\* unit, holds no update request or response and has sent neither the
\* status update nor the chat post.
C25_IsEmergencyIffLabel ==
    \A r \in Runs :
        ClassifierAnswered(r) =>
            /\ LoadedConfig(r, TRUE, TRUE) \/ LoadedConfig(r, TRUE, FALSE)
            /\ Rec(r).order_emergency # None
            /\ Rec(r).order_emergency[1] \in Labels
            /\ Rec(r).is_emergency =
                Some(Rec(r).order_emergency[1] \in AffirmativeLabels)
            /\ Rec(r).order_emergency[1] \notin AffirmativeLabels =>
                /\ Rec(r).order_emergency = Some(OtherLabel)
                /\ pc[r] \in {"save", "done"}
                /\ Rec(r).is_error = None
                /\ Rec(r).comment = None
                /\ Rec(r).uds_id = None
                /\ frame[r].responsible_users_ids = None
                /\ Rec(r).order_update_request = None
                /\ Rec(r).order_update_response = None
                /\ NoDispatchCall(r)

\* The answer " AV" with a line break is an emergency and was dispatched,
\* the answer "Av n" is none and the run ended without error.
C25_Witness ==
    /\ Done("r1") /\ Done("r2")
    /\ Rec("r1").order_emergency = Some(<<" ", "A", "V", "\n">>)
    /\ Rec("r1").is_emergency = Some(TRUE)
    /\ Sent("r1", "chat")
    /\ Rec("r2").order_emergency = Some(OtherLabel)
    /\ Rec("r2").is_emergency = Some(FALSE)
    /\ Rec("r2").is_error = None
    /\ LoadedConfig("r2", TRUE, TRUE)

----------------------------------------------------------------------------
(* C26 -- last match wins                                                  *)

\* The value of the last order-form field of type TEXT and title COMMENT of
\* the fetched order details, and the value of the last summary field of
\* title OBJECT; None without such a field.
LastComment(r) ==
    LET form == Rec(r).order_details[1].service.orderForm
        texts == {i \in DOMAIN form : form[i].type = "TEXT" /\ form[i].title = "COMMENT"}
    IN  IF texts = {} THEN None
        ELSE Some(form[CHOOSE i \in texts : \A j \in texts : j <= i].value)

LastObject(r) ==
    LET summary == Rec(r).order_details[1].order.summary
        objects == {i \in DOMAIN summary : summary[i].title = "OBJECT"}
    IN  IF objects = {} THEN None
        ELSE Some(summary[CHOOSE i \in objects : \A j \in objects : j <= i].value)

\* The order details hold a non-blank match before the last, blank one.
EarlierCommentNotBlank(r) ==
    LET form == Rec(r).order_details[1].service.orderForm
    IN  \E i, j \in DOMAIN form :
            /\ i < j
            /\ form[i].type = "TEXT" /\ form[i].title = "COMMENT"
            /\ form[i].value = <<"t">>
            /\ form[j].type = "TEXT" /\ form[j].title = "COMMENT"

EarlierObjectNotBlank(r) ==
    LET summary == Rec(r).order_details[1].order.summary
    IN  \E i, j \in DOMAIN summary :
            /\ i < j
            /\ summary[i].title = "OBJECT" /\ summary[i].value = <<"L", "e">>
            /\ summary[j].title = "OBJECT"

\* C26: the extracted comment is the value of the last TEXT/COMMENT field
\* and the extracted address, once extracted, the value of the last OBJECT
\* field; with classification enabled a blank last comment fails the run
\* with the comment error and a blank last address with the address error,
\* whatever the earlier matches hold.
C26_LastMatchWins ==
    \A r \in Runs :
        (Started(r) /\ Rec(r).order_details # None) =>
            LET failed == FailedGate(r)
                last_comment == LastComment(r)
                last_object == LastObject(r)
            IN  /\ Rec(r).order_query = last_comment
                /\ failed # 6 => Rec(r).order_address = last_object
                /\ failed = 6 => Rec(r).order_address = None
                /\ FetchedForClassification(r) =>
                    /\ (last_comment = Some(<<" ">>)) => failed = 6
                    /\ (last_comment = Some(<<"t", "\n", "t">>)
                            /\ last_object = Some(<<" ">>)) => failed = 7
                    /\ failed \in {6, 7} => llm_calls[r] = <<>>

\* One run failed on the blank last comment after the comment "t", the
\* other on the blank last address after the address "Le".
C26_Witness ==
    /\ Done("r1") /\ Done("r2")
    /\ FetchedForClassification("r1") /\ FetchedForClassification("r2")
    /\ EarlierCommentNotBlank("r1")
    /\ Rec("r1").order_query = Some(<<" ">>)
    /\ FailedGate("r1") = 6
    /\ EarlierObjectNotBlank("r2")
    /\ Rec("r2").order_address = Some(<<" ">>)
    /\ FailedGate("r2") = 7

\* Among several matches the last one is taken: the third TEXT/COMMENT field
\* and the second OBJECT field.
C26_WitnessLastOfSeveral ==
    \E r \in Runs :
        /\ Done(r) /\ Rec(r).order_details # None
        /\ Len(Rec(r).order_details[1].service.orderForm) = 4
        /\ Len(Rec(r).order_details[1].order.summary) = 3
        /\ Rec(r).order_query = Some(<<"t", "\n", "t">>)
        /\ Rec(r).order_address = Some(<<"M">>)
        /\ Rec(r).uds_id = Some(<<"[", "9", "]">>)

----------------------------------------------------------------------------
(* C27 -- runs for different orders are independent                        *)

\* How the i-th call of run r was answered ("ok" if it was not made).
RespAt(r, i) == IF i <= Len(calls[r]) THEN calls[r][i].resp ELSE "ok"

\* The record a stage leaves when nothing follows it: the except block has
\* handled its exception, if any.
Caught(out) ==
    IF out.error = None THEN out.record
    ELSE except_handler(out.record, out.error[1])

\* The record of run r as the pipeline computes it when the run is alone,
\* with an empty history store, from what the run itself was given: its
\* request, client and config, whether its lookup of the store worked, the
\* answers to its calls, the order details and the classifier's answer.
SoloDispatch(r, rec) ==
    LET update_failure ==
            operation_failure("Order status UPDATE", RespAt(r, 3) = "ok", RespAt(r, 4))
        chat_failure ==
            operation_failure("Order internal chat POST", RespAt(r, 5) = "ok", RespAt(r, 6))
        ids == get_responsible_users_ids_by_order_address(rec.order_address[1])
    IN  IF update_failure # None THEN except_handler(rec, update_failure[1])
        ELSE IF chat_failure # None THEN except_handler(rec, chat_failure[1])
        ELSE after_dispatch(rec, status_update_request(ids[1]), StatusUpdateResponse)

SoloClassify(r, rec, cfg) ==
    IF ClassifierBroke(r) THEN Caught(on_classifier_error(rec))
    ELSE LET out == after_classification(rec, cfg, Rec(r).order_emergency[1])
         IN  IF out.pc = "update" THEN SoloDispatch(r, out.record) ELSE Caught(out)

SoloFetch(r, rec, cfg) ==
    LET failure == operation_failure("OrderDetails GET", RespAt(r, 1) = "ok", RespAt(r, 2))
    IN  IF failure # None THEN except_handler(rec, failure[1])
        ELSE LET out == after_order_details(rec, cfg, Rec(r).order_details[1])
             IN  IF out.pc = "classify"
                 THEN SoloClassify(r, out.record, cfg)
                 ELSE Caught(out)

SoloRecord(r) ==
    LET b == Req(r)
        client == frame[r].client
        cfg == get_default_config(client)
        out == run_gates(new_history_record(b), b, client,
                         frame[r].saved # "fail", None, cfg)
    IN  IF out.pc = "fetch" THEN SoloFetch(r, out.record, cfg[1]) ELSE Caught(out)

\* The calls of run r alone: those of the operations it reaches.
SoloOps(r) ==
    LET full == <<"auth", "order_info", "auth", "status_update", "auth", "chat">>
    IN  SubSeq(full, 1, Len(calls[r]))

\* C27: of two runs for different order ids, neither finds the other's
\* record at the idempotency gate; each run that has ended holds, and has
\* persisted, the record it computes alone from its own inputs, and has
\* made the calls it makes alone; the history store holds one row per run
\* that has ended, the row of an order being the record of its run; and the
\* order of a run in the order-management system has been changed by that
\* run's calls alone.
C27_DifferentOrdersAreIndependent ==
    \A r1, r2 \in Runs :
        (Started(r1) /\ Started(r2)
            /\ Req(r1).data.orderId # Req(r2).data.orderId) =>
            /\ ~Conflicted(r1)
            /\ Ops(r1) = SoloOps(r1)
            /\ Done(r1) =>
                LET alone == SoloRecord(r1)
                    rows == RowsOf(Req(r1).data.orderId, frame[r1].client)
                IN  /\ Rec(r1) = alone
                    /\ result[r1][1].record = alone
                    /\ \A i \in rows : store[i].record = alone
                    /\ Cardinality(rows) = 1
            /\ Len(store) = Cardinality({r \in {r1, r2} : Done(r)})
            /\ ~Sent(r1, "status_update") =>
                domyland[Req(r1).data.orderId] = NewOrder
            /\ ~Sent(r1, "chat") =>
                domyland[Req(r1).data.orderId].comments = <<>>

\* Both runs, for the orders 42 and 43, have dispatched and ended: two rows
\* in the store, the later row's run having passed the gate with the other
\* run's row already stored.
C27_Witness ==
    /\ Done("r1") /\ Done("r2")
    /\ Req("r1").data.orderId = 42 /\ Req("r2").data.orderId = 43
    /\ Sent("r1", "chat") /\ Sent("r2", "chat")
    /\ Rec("r1").is_error = None /\ Rec("r2").is_error = None
    /\ Len(store) = 2
    /\ store[1].record.order_id = 43
    /\ Rec("r1") = SoloRecord("r1")
    /\ domyland[42].comments # <<>> /\ domyland[43].comments # <<>>

============================================================================
